---- MODULE Spec2Model ----
(***************************************************************************)
(* A model of charter's large-series pipeline and dashboard composer:      *)
(*   - src/src/charter/utils/downsampling.py  (lttb / simple / minmax)      *)
(*   - src/src/charter/charts/timeseries.py   (reduction policy, rendering) *)
(*   - src/src/charter/charts/dashboard.py    (panel loop, shared legend)   *)
(*   - src/src/charter/api.py                 (generate_dashboard)          *)
(*                                                                         *)
(* Python sequences are 0-based; TLA+ sequences are 1-based.  Indices kept  *)
(* in the model (idx, bucket bounds) are the Python 0-based ones and        *)
(* At(s, i) reads s[i] the way Python does.                                 *)
(*                                                                         *)
(* y values are small integers, on which the float64 conversion of          *)
(* np.asarray(y, dtype=np.float64) is exact.  The float64 bucket bounds     *)
(* int(i * (a / b)) are computed bit-exactly by TruncMul.  The LTTB areas   *)
(* are compared in exact arithmetic (scaled by the size of the next         *)
(* bucket); on the series enumerated here no two candidate areas are close  *)
(* enough for float64 rounding to order them differently.                   *)
(***************************************************************************)
EXTENDS Integers, Sequences, FiniteSets, TLC

VARIABLES
    x,          \* downsampling input: x values (numbers or datetimes)
    y,          \* downsampling input: y values
    threshold,  \* downsampling input: target number of points
    op,         \* which function has been called: "none" before the call
    res,        \* what the call produced (returned arrays or the exception)
    style,      \* the TimeSeriesStyle of the chart (reduction fields)
    settings,   \* the cached ChartSettings (reduction fields)
    panels,        \* DashboardChart.panels: the caller's list of PanelConfig
    shared_legend, \* DashboardChart.layout.shared_legend
    dpc,           \* where the dashboard request is: "idle", "api" (in
                   \* generate_dashboard), "loop", "done", "raised"
    dexc,          \* the exception that left _render_sync, "none" otherwise
    pos,           \* number of panels the loop has completed
    axes,          \* number of sub-rectangles allocated with add_subplot
    all_handles,   \* the accumulated legend handles
    all_labels,    \* the accumulated legend labels
    placed,        \* the arguments _add_shared_legend was called with, if it was
    log,           \* the _render_to_axes_impl calls made so far: inputs, outcome
    renders,       \* the DashboardChart renders running on worker threads
    bands,         \* data["upper"] / data["lower"] of the time series chart
    band_res,      \* the locals upper / lower after the band block reduced them
    plot,          \* what _render_to_axes_impl handed to matplotlib: the main
                   \* series, the range bands and the trend line
    rect_map,      \* the lists the latest _adjust_layout call worked on: the
                   \* values of its rect_map dict and its two other literals
    layouts,       \* the _adjust_layout calls made so far: inputs and rect
    registry,      \* StyleRegistry._styles: chart type -> name -> style
    registered     \* the styles passed to register_style so far

algVars == <<x, y, threshold, op, res>>
policyVars == <<style, settings>>
dashVars ==
    <<panels, shared_legend, dpc, dexc, pos, axes, all_handles, all_labels,
      placed>>
renderVars == <<log>>
concVars == <<renders>>
plotVars == <<bands, band_res, plot>>
layoutVars == <<rect_map, layouts>>
registryVars == <<registry, registered>>
auxVars == <<plotVars, layoutVars, registryVars>>
vars == <<algVars, policyVars, dashVars, renderVars, concVars, auxVars>>

----------------------------------------------------------------------------
(* Bounds of the model *)

\* short series are enumerated exhaustively up to this length
MaxLen == 4
\* longer series (spike shaped) go up to this length
MaxN == 30
\* largest requested target
MaxT == 23

\* most panels in a dashboard
MaxPanels == 3
\* most _render_to_axes_impl calls in one behaviour
MaxCalls == 3
\* most panels of a dashboard that is rendered concurrently with another
MaxConcPanels == 2
\* longest series of a chart with range bands
MaxBandN == 6
\* most _adjust_layout calls in one behaviour
MaxLayoutCalls == 3
\* most register_style calls in one behaviour
MaxRegistered == 2
\* longest series handed to the reduction policy
MaxPolicyN == 7
\* largest style-level downsample_threshold
MaxPolicyT == 5
\* largest settings.max_render_points
MaxCap == 4

\* y values of the exhaustively enumerated series
Vals == {0, 1, 2}
Thresholds == (0 - 1)..MaxT

----------------------------------------------------------------------------
(* Helpers for Python semantics *)

At(s, i) == s[i + 1]

Min2(a, b) == IF a <= b THEN a ELSE b
Max2(a, b) == IF a >= b THEN a ELSE b
Abs(a) == IF a < 0 THEN 0 - a ELSE a

\* Python range(lo, hi) as a sequence of integers
Range(lo, hi) == [k \in 1..Max2(hi - lo, 0) |-> lo + k - 1]

\* arr[indices] (numpy fancy indexing) for 0-based indices
Take(s, indices) == [k \in 1..Len(indices) |-> At(s, indices[k])]

RECURSIVE Pow2(_)
Pow2(e) == IF e <= 0 THEN 1 ELSE 2 * Pow2(e - 1)

\* floor(log2(m)) for an integer m >= 1
RECURSIVE Log2Floor(_)
Log2Floor(m) == IF m < 2 THEN 0 ELSE 1 + Log2Floor(m \div 2)

\* 2^e mod m
RECURSIVE Pow2Mod(_, _)
Pow2Mod(e, m) == IF e <= 0 THEN 1 % m ELSE (2 * Pow2Mod(e - 1, m)) % m

RECURSIVE SumSeq(_)
SumSeq(s) == IF s = <<>> THEN 0 ELSE Head(s) + SumSeq(Tail(s))

(***************************************************************************)
(* int(i * (a / b)) in IEEE-754 binary64, for integers i >= 0, a >= b >= 1. *)
(* q = fl(a / b) has a 53-bit significand; s is the scaling that makes      *)
(* a * 2^s / b fall in [2^52, 2^53).  The product i * q is rounded again.   *)
(* When i * a / b is not an integer the two roundings cannot carry the      *)
(* value across an integer, so the truncation is the exact floor.  When it  *)
(* is an integer m, the result is m - 1 exactly when q was rounded down     *)
(* (remainder r, 0 < 2r < b, or a tie to an even significand) and the       *)
(* product's deficit i * r / (b * 2^s) exceeds half the spacing of the      *)
(* doubles just below m.                                                    *)
(***************************************************************************)
TruncMul(i, a, b) ==
    LET exact == (i * a) \div b
    IN  IF (i * a) % b # 0 \/ exact = 0 THEN exact
        ELSE LET e    == Log2Floor(a \div b)
                 A    == (a * Pow2Mod(52 - e, 2 * b)) % (2 * b)
                 r    == A % b
                 qodd == A \div b
                 up   == 2 * r > b \/ (2 * r = b /\ qodd = 1)
                 E    == Log2Floor(exact)
                 half == IF exact = Pow2(E) THEN 4 ELSE 2
             IN  IF r = 0 \/ up THEN exact
                 ELSE IF i * r * half > b * Pow2(E - e) THEN exact - 1
                 ELSE exact

----------------------------------------------------------------------------
(* Values and results *)

\* seconds in a day: datetime.timestamp() of a date d days after the epoch
SecondsPerDay == 86400

Num(v) == [kind |-> "num", v |-> v]
Date(d) == [kind |-> "datetime", v |-> d]

\* isinstance(x_arr[0], datetime)
IsDatetime(e) == e.kind = "datetime"

\* d.timestamp()
Timestamp(e) == e.v * SecondsPerDay

\* x_numeric: the numeric projection of x used by the area computation
XNumeric(xs) ==
    IF Len(xs) > 0 /\ IsDatetime(At(xs, 0))
    THEN [k \in 1..Len(xs) |-> Timestamp(xs[k])]
    ELSE [k \in 1..Len(xs) |-> xs[k].v]

\* a normal return of (x, y); idx records the input index each point came from
Returned(xs, ys, indices) ==
    [status |-> "ok", x |-> xs, y |-> ys, idx |-> indices]

\* an exception leaving the function
Raised(exc) == [status |-> exc, x |-> <<>>, y |-> <<>>, idx |-> <<>>]

NoResult == [status |-> "none", x |-> <<>>, y |-> <<>>, idx |-> <<>>]

\* the early "return x_arr, y_arr"
ReturnInput(xs, ys) == Returned(xs, ys, Range(0, Len(ys)))

----------------------------------------------------------------------------
(* lttb_downsample *)

\* bucket_start / bucket_end / next_bucket_start: int(i * bucket_size) + 1
\* with bucket_size = (n - 2) / (t - 2)
LttbBound(i, n, t) == TruncMul(i, n - 2, t - 2) + 1

\* next_bucket_end, clamped to n - 1
LttbNextEnd(i, n, t) == Min2(LttbBound(i + 2, n, t), n - 1)

\* the index range x_numeric[next_bucket_start : next_bucket_end + 1]
LttbNextSlice(i, n, t) ==
    Range(LttbBound(i + 1, n, t), Min2(LttbNextEnd(i, n, t) + 1, n))

\* the candidates: range(bucket_start, min(bucket_end, n - 1))
LttbCandidates(i, n, t) ==
    Range(LttbBound(i, n, t), Min2(LttbBound(i + 1, n, t), n - 1))

\* cnt * area of the triangle (prev, j, mean of the next bucket), where the
\* mean is (sx / cnt, sy / cnt)
LttbArea(xn, ys, prev, j, sx, sy, cnt) ==
    Abs((At(xn, prev) * cnt - sx) * (At(ys, j) - At(ys, prev))
        - (At(xn, prev) - At(xn, j)) * (sy - At(ys, prev) * cnt))

\* the inner loop: the first candidate whose area is strictly the largest;
\* best = -1 stands for max_area = -1.0 (nothing compared greater yet)
RECURSIVE LttbScan(_, _, _, _, _, _, _, _, _)
LttbScan(cands, k, xn, ys, prev, sx, sy, cnt, best) ==
    IF k > Len(cands) THEN best
    ELSE LET j == cands[k]
             better ==
                 \* the mean of an empty slice is nan: no comparison succeeds
                 /\ cnt > 0
                 /\ \/ best.area < 0
                    \/ LttbArea(xn, ys, prev, j, sx, sy, cnt) > best.area
         IN  LttbScan(cands, k + 1, xn, ys, prev, sx, sy, cnt,
                      IF better
                      THEN [area |-> LttbArea(xn, ys, prev, j, sx, sy, cnt),
                            idx |-> j]
                      ELSE best)

\* max_idx of bucket i, given the previously selected index
LttbSelect(i, n, t, xn, ys, prev) ==
    LET slice == LttbNextSlice(i, n, t)
        sx == SumSeq(Take(xn, slice))
        sy == SumSeq(Take(ys, slice))
    IN  LttbScan(LttbCandidates(i, n, t), 1, xn, ys, prev, sx, sy, Len(slice),
                 [area |-> 0 - 1, idx |-> LttbBound(i, n, t)]).idx

\* the outer loop "for i in range(threshold - 2)": the indices stored at
\* sampled[1 .. threshold - 2]
RECURSIVE LttbLoop(_, _, _, _, _, _, _)
LttbLoop(i, n, t, xn, ys, prev, acc) ==
    IF i >= t - 2 THEN acc
    ELSE LET sel == LttbSelect(i, n, t, xn, ys, prev)
         IN  LttbLoop(i + 1, n, t, xn, ys, sel, Append(acc, sel))

\* the threshold after "if threshold < 2: threshold = 2"
LttbClamp(t) == IF t < 2 THEN 2 ELSE t

\* variant: only a negative threshold returns early
LttbNoTarget_negative(t) == t < 0

\* the first early return: "if threshold <= 0"
LttbNoTarget(t) == t <= 0

\* the second early return: "if n <= threshold"
LttbSmallEnough(n, t) == n <= t

lttb_downsample(xs, ys, thr) ==
    LET n == Len(ys)
        t == LttbClamp(thr)
    IN  IF LttbNoTarget(thr) THEN ReturnInput(xs, ys)
        ELSE IF LttbSmallEnough(n, thr) THEN ReturnInput(xs, ys)
        \* bucket_size = (n - 2) / (threshold - 2) on Python ints
        ELSE IF t - 2 = 0 THEN Raised("ZeroDivisionError")
        ELSE LET indices ==
                     <<0>> \o LttbLoop(0, n, t, XNumeric(xs), ys, 0, <<>>)
                           \o <<n - 1>>
             IN  Returned(Take(xs, indices), Take(ys, indices), indices)

----------------------------------------------------------------------------
(* simple_downsample *)

\* variant: the step rounded up instead of down
SimpleStep_ceil(n, t) == Max2(1, (n + t - 1) \div t)

\* step = max(1, n // threshold)
SimpleStep(n, t) == Max2(1, n \div t)

\* np.arange(0, n, step)
Arange(n, step) == [k \in 1..((n + step - 1) \div step) |-> (k - 1) * step]

\* variant: the last index is not appended
SimpleIndices_noAppend(n, t) == Arange(n, SimpleStep(n, t))

\* variant: n - 1 is appended whether or not the arange ends with it
SimpleIndices_alwaysAppend(n, t) ==
    Append(Arange(n, SimpleStep(n, t)), n - 1)

\* the arange, with n - 1 appended when it is not its last element
SimpleIndices(n, t) ==
    LET indices == Arange(n, SimpleStep(n, t))
    IN  IF indices[Len(indices)] # n - 1 THEN Append(indices, n - 1)
        ELSE indices

\* variant: a target below 2 returns early as well
SimpleSkip_belowTwo(n, t) == t < 2 \/ n <= t

\* the early return: "if threshold <= 0 or n <= threshold"
SimpleSkip(n, t) == t <= 0 \/ n <= t

simple_downsample(xs, ys, thr) ==
    LET n == Len(ys)
    IN  IF SimpleSkip(n, thr) THEN ReturnInput(xs, ys)
        ELSE LET indices == SimpleIndices(n, thr)
             IN  Returned(Take(xs, indices), Take(ys, indices), indices)

----------------------------------------------------------------------------
(* minmax_downsample *)

\* start / end of bucket i: int(i * bucket_size) with bucket_size = n / k
MinMaxBound(i, n, k) == TruncMul(i, n, k)

\* "if end > n: end = n"
MinMaxEnd(i, n, k) == Min2(MinMaxBound(i + 1, n, k), n)

\* start + np.argmin(y_arr[start:end]): the first index of the minimum
ArgMin(ys, start, end) ==
    CHOOSE j \in start..(end - 1) :
        /\ \A m \in start..(end - 1) : At(ys, j) <= At(ys, m)
        /\ \A m \in start..(j - 1) : At(ys, m) > At(ys, j)

\* start + np.argmax(y_arr[start:end]): the first index of the maximum
ArgMax(ys, start, end) ==
    CHOOSE j \in start..(end - 1) :
        /\ \A m \in start..(end - 1) : At(ys, j) >= At(ys, m)
        /\ \A m \in start..(j - 1) : At(ys, m) < At(ys, j)

\* variant: a bucket whose minimum and maximum coincide emits one point
MinMaxPair_dedup(ys, start, end) ==
    IF ArgMin(ys, start, end) = ArgMax(ys, start, end)
    THEN <<ArgMin(ys, start, end)>>
    ELSE IF ArgMin(ys, start, end) <= ArgMax(ys, start, end)
    THEN <<ArgMin(ys, start, end), ArgMax(ys, start, end)>>
    ELSE <<ArgMax(ys, start, end), ArgMin(ys, start, end)>>

\* variant: the minimum is emitted first wherever it lies
MinMaxPair_minFirst(ys, start, end) ==
    <<ArgMin(ys, start, end), ArgMax(ys, start, end)>>

\* the two indices one bucket emits, the earlier one first
MinMaxPair(ys, start, end) ==
    LET min_idx == ArgMin(ys, start, end)
        max_idx == ArgMax(ys, start, end)
    IN  IF min_idx <= max_idx THEN <<min_idx, max_idx>>
        ELSE <<max_idx, min_idx>>

\* the loop "for i in range(n_buckets)"; a bucket with start >= end is skipped
RECURSIVE MinMaxLoop(_, _, _, _, _)
MinMaxLoop(i, n, k, ys, acc) ==
    IF i >= k THEN acc
    ELSE LET start == MinMaxBound(i, n, k)
             end == MinMaxEnd(i, n, k)
         IN  MinMaxLoop(i + 1, n, k, ys,
                        IF start >= end THEN acc
                        ELSE acc \o MinMaxPair(ys, start, end))

\* n_buckets = threshold // 2
MinMaxBuckets(t) == t \div 2

\* variant: a series of exactly threshold points is not returned early
MinMaxSkip_strict(n, t) == t <= 0 \/ n < t

\* the early return: "if threshold <= 0 or n <= threshold"
MinMaxSkip(n, t) == t <= 0 \/ n <= t

minmax_downsample(xs, ys, thr) ==
    LET n == Len(ys)
        k == MinMaxBuckets(thr)
    IN  IF MinMaxSkip(n, thr) THEN ReturnInput(xs, ys)
        \* bucket_size = n / n_buckets on Python ints
        ELSE IF k = 0 THEN Raised("ZeroDivisionError")
        ELSE LET indices == MinMaxLoop(0, n, k, ys, <<>>)
             IN  Returned(Take(xs, indices), Take(ys, indices), indices)

----------------------------------------------------------------------------
(* TimeSeriesChart: the reduction policy *)

\* an Optional[int]: None, or an integer
None == [some |-> FALSE, v |-> 0]
Some(v) == [some |-> TRUE, v |-> v]

\* TimeSeriesStyle: the large-dataset fields and their defaults
DefaultStyle ==
    [auto_downsample |-> TRUE, downsample_threshold |-> None,
     rasterize |-> FALSE, auto_rasterize |-> TRUE,
     show_trend |-> FALSE, range_bands |-> FALSE]

\* ChartSettings values read by the policy: the global default threshold and
\* the hard cap on rendered points
SettingsValues ==
    [downsample_threshold : {0 - 1, 0, 3},
     max_render_points : (0 - 1)..MaxCap]

\* variant: the override is tested for truth, so 0 falls back to the settings
GetDownsampleThreshold_truthy(st, se) ==
    IF st.downsample_threshold.some /\ st.downsample_threshold.v # 0
    THEN st.downsample_threshold.v
    ELSE se.downsample_threshold

\* _get_downsample_threshold: the style's override when it is not None
GetDownsampleThreshold(st, se) ==
    IF st.downsample_threshold.some THEN st.downsample_threshold.v
    ELSE se.downsample_threshold

\* whether _maybe_downsample goes on to call lttb_downsample
PolicyTriggers(n, st, se) ==
    /\ ~(~st.auto_downsample \/ GetDownsampleThreshold(st, se) <= 0)
    /\ ~(n <= GetDownsampleThreshold(st, se))

\* variant: the hard cap is not applied
TargetPoints_noCap(st, se) == GetDownsampleThreshold(st, se)

\* variant: the target grows with every render made before
TargetPoints_perCall(st, se) ==
    Min2(GetDownsampleThreshold(st, se), se.max_render_points) + Len(log)

\* target_points = min(threshold, self._settings.max_render_points)
TargetPoints(st, se) ==
    Min2(GetDownsampleThreshold(st, se), se.max_render_points)

\* _maybe_downsample(dates, values)
maybe_downsample(dates, values, st, se) ==
    IF ~PolicyTriggers(Len(values), st, se) THEN ReturnInput(dates, values)
    ELSE lttb_downsample(dates, values, TargetPoints(st, se))

----------------------------------------------------------------------------
(* TimeSeriesChart: rendering one series *)

\* variant: nothing is rasterized unless reduction is switched on as well
ShouldRasterize_needsDownsample(n_points, st, se) ==
    /\ st.auto_downsample
    /\ \/ st.rasterize
       \/ st.auto_rasterize /\ n_points > se.auto_rasterize_threshold

\* _should_rasterize(n_points)
ShouldRasterize(n_points, st, se) ==
    IF st.rasterize THEN TRUE
    ELSE IF st.auto_rasterize THEN n_points > se.auto_rasterize_threshold
    ELSE FALSE

\* _render_single_series was called with these points and this flag
Drawn(r, flag) ==
    [status |-> "ok", x |-> r.x, y |-> r.y, idx |-> r.idx, rasterize |-> flag]

\* an exception left _render_to_axes_impl before anything was plotted
NotDrawn(exc) ==
    [status |-> exc, x |-> <<>>, y |-> <<>>, idx |-> <<>>, rasterize |-> FALSE]

\* _render_to_axes_impl on a single series: the flag is computed from
\* len(dates) first, then the series is reduced, then it is plotted
render_to_axes_impl(dates, values, st, se) ==
    LET should_rasterize == ShouldRasterize(Len(dates), st, se)
        r == maybe_downsample(dates, values, st, se)
    IN  IF r.status # "ok" THEN NotDrawn(r.status)
        ELSE Drawn(r, should_rasterize)

----------------------------------------------------------------------------
(* TimeSeriesChart: range bands and trend line of a single series *)

\* a part of the plot that was not requested, or not reached
NoPart == [status |-> "none"]

\* variant: the bands are never reduced
BandNeedsReduction_never(band, dates) == FALSE

\* "if len(upper) != len(dates)", dates being the main series as rendered
BandNeedsReduction(band, dates) == Len(band) # Len(dates)

\* variant: a band is cut down to the indices selected for the main series
BandReduce_mainIndices(dates, band, main, st, se) ==
    Returned(Take(dates, main.idx), Take(band, main.idx), main.idx)

\* "_, upper = self._maybe_downsample(self._parse_dates(...), upper)": a
\* reduction of the band over the original dates; the main series' result
\* is not consulted
BandReduce(dates, band, main, st, se) == maybe_downsample(dates, band, st, se)

\* ax.fill_between(dates, lower, upper): the three must have one length
AddRangeBands(dates, u, l) ==
    IF Len(u.y) # Len(dates) \/ Len(l.y) # Len(dates)
    THEN [status |-> "ValueError"]
    ELSE [status |-> "ok", x |-> dates, upper |-> u.y, lower |-> l.y,
          uidx |-> u.idx, lidx |-> l.idx]

\* the reductions of the range-band block: both bands are reduced when the
\* upper band is not as long as the main series as rendered
ReduceBands(dates, b, main, st, se) ==
    IF BandNeedsReduction(b.upper, main.x)
    THEN [upper |-> BandReduce(dates, b.upper, main, st, se),
          lower |-> BandReduce(dates, b.lower, main, st, se)]
    ELSE [upper |-> ReturnInput(dates, b.upper),
          lower |-> ReturnInput(dates, b.lower)]

\* the range-band block of _render_to_axes_impl, given its reductions
RangeBands(main, red) ==
    IF red.upper.status # "ok" THEN [status |-> red.upper.status]
    ELSE IF red.lower.status # "ok" THEN [status |-> red.lower.status]
    ELSE AddRangeBands(main.x, red.upper, red.lower)

\* _add_trend_line(ax, original_dates, original_values): a straight line
\* fitted to all the points it is given and plotted at the dates it is
\* given; np.polyfit raises TypeError on an empty vector
AddTrendLine(dates, values) ==
    IF Len(dates) = 0 THEN [status |-> "TypeError"]
    ELSE [status |-> "ok", x |-> dates, fitted_on |-> Len(values)]

\* whether the band block runs: the style asks for bands, the data has them
HasBands(b, st) == st.range_bands /\ b.present

\* the plot after the main series: the bands when the style asks for them
\* and the data has them, then the trend line when the style asks for it
PlotExtras(dates, values, b, st, main, red) ==
    LET band == IF HasBands(b, st) THEN RangeBands(main, red) ELSE NoPart
        trend == IF st.show_trend THEN AddTrendLine(dates, values) ELSE NoPart
    IN  IF band.status \notin {"ok", "none"}
        THEN [status |-> band.status, main |-> main, band |-> band,
              trend |-> NoPart]
        ELSE IF trend.status \notin {"ok", "none"}
        THEN [status |-> trend.status, main |-> main, band |-> band,
              trend |-> trend]
        ELSE [status |-> "ok", main |-> main, band |-> band, trend |-> trend]

\* _render_to_axes_impl on a chart in single-series mode, bands and trend
\* included, given the result r of the main series' reduction, the
\* rasterize flag computed before it and the reductions of the bands
render_single(dates, values, b, st, r, flag, red) ==
    IF r.status # "ok"
    THEN [status |-> r.status, main |-> NotDrawn(r.status), band |-> NoPart,
          trend |-> NoPart]
    ELSE PlotExtras(dates, values, b, st, Drawn(r, flag), red)

----------------------------------------------------------------------------
(* DashboardChart: the panel loop and the shared legend *)

\* CHART_CLASSES: the chart kinds a panel may have
CHART_CLASSES == {"bar", "line", "timeseries"}

\* the built-in style names of the registry, per chart type
RegistryStyles ==
    [bar |-> {"default", "grouped", "stacked", "horizontal", "outlined",
              "labeled"},
     line |-> {"default", "smooth", "stepped", "area", "dotted", "dashed",
               "markers"},
     timeseries |-> {"default", "area", "trend", "range", "minimal",
                     "large_dataset"}]

\* str.lower() on the strings that occur as chart kinds and style names
Lower(str) ==
    CASE str = "Line" -> "line"
      [] str = "BAR" -> "bar"
      [] str = "Default" -> "default"
      [] str = "Dark" -> "dark"
      [] str = "Custom" -> "custom"
      [] OTHER -> str

\* _create_panel_chart: "ok", or the exception it raises
CreatePanelChart(panel) ==
    IF Lower(panel.chart_type) \notin CHART_CLASSES THEN "ValueError"
    ELSE IF Lower(panel.style) \notin RegistryStyles[Lower(panel.chart_type)]
    THEN "ValueError"
    ELSE "ok"

\* chart._render_to_axes_impl(ax): BarChart does not override the method of
\* BaseChart, which raises NotImplementedError; LineChart and
\* TimeSeriesChart draw the data, or raise on data that cannot be plotted
RenderToAxes(panel) ==
    IF Lower(panel.chart_type) = "bar" THEN "NotImplementedError"
    ELSE IF panel.data_ok THEN "ok"
    ELSE "DataError"

\* ax.get_legend_handles_labels(): the labelled artists of panel p, in
\* drawing order; a handle is identified by its panel and position
PanelHandles(p, panel) == [j \in 1..Len(panel.labels) |-> <<p, j>>]

\* variant: an entry is appended without looking at the labels seen so far
CollectOne_noCheck(acc, handle, label) ==
    [handles |-> Append(acc.handles, handle),
     labels |-> Append(acc.labels, label)]

\* variant: a new entry is put in front of the earlier ones
CollectOne_prepend(acc, handle, label) ==
    IF \E k \in 1..Len(acc.labels) : acc.labels[k] = label THEN acc
    ELSE [handles |-> <<handle>> \o acc.handles,
          labels |-> <<label>> \o acc.labels]

\* the body of "for handle, label in zip(handles, labels)"
CollectOne(acc, handle, label) ==
    IF \E k \in 1..Len(acc.labels) : acc.labels[k] = label THEN acc
    ELSE [handles |-> Append(acc.handles, handle),
          labels |-> Append(acc.labels, label)]

\* the loop over zip(handles, labels), from position j on
RECURSIVE CollectLegend(_, _, _, _)
CollectLegend(acc, handles, labels, j) ==
    IF j > Min2(Len(handles), Len(labels)) THEN acc
    ELSE CollectLegend(CollectOne(acc, handles[j], labels[j]),
                       handles, labels, j + 1)

NotPlaced == [called |-> FALSE, handles |-> <<>>, labels |-> <<>>]

\* no dashboard is being rendered
DashIdle ==
    /\ panels = <<>>
    /\ shared_legend = TRUE
    /\ dpc = "idle"
    /\ dexc = "none"
    /\ pos = 0
    /\ axes = 0
    /\ all_handles = <<>>
    /\ all_labels = <<>>
    /\ placed = NotPlaced

\* no chart has been rendered and no worker thread is running
RenderIdle ==
    /\ log = <<>>
    /\ renders = <<>>

\* the chart's data has no "upper" / "lower"
NoBands == [present |-> FALSE, upper |-> <<>>, lower |-> <<>>]

\* the band block has not run
NoBandRes == [upper |-> NoResult, lower |-> NoResult]

\* nothing has been handed to matplotlib
NoPlot == [status |-> "none"]

\* no chart with bands is rendered, no layout adjusted, no registry in use
AuxIdle ==
    /\ bands = NoBands
    /\ band_res = NoBandRes
    /\ plot = NoPlot
    /\ rect_map = <<>>
    /\ layouts = <<>>
    /\ registry = <<>>
    /\ registered = <<>>

\* PanelConfig.from_dict(p): d["chart_type"] and d["data"] must be present
FromDict(panel) == IF panel.keys_ok THEN "ok" ELSE "KeyError"

\* generate_dashboard up to "await dashboard.render()": the panel dicts are
\* parsed, the DashboardChart is built and its render is started
GenerateDashboard ==
    /\ dpc = "api"
    /\ IF \E p \in 1..Len(panels) : FromDict(panels[p]) # "ok"
       THEN dpc' = "raised" /\ dexc' = "KeyError"
       ELSE dpc' = "loop" /\ UNCHANGED dexc
    /\ UNCHANGED <<panels, shared_legend, pos, axes, all_handles, all_labels,
                   placed, algVars, policyVars, renderVars, concVars, auxVars>>

\* one iteration of "for panel in self.panels"
RenderPanel ==
    /\ dpc = "loop"
    /\ pos < Len(panels)
    /\ LET panel == panels[pos + 1]
           created == CreatePanelChart(panel)
           drawn == RenderToAxes(panel)
           acc == CollectLegend([handles |-> all_handles, labels |-> all_labels],
                                PanelHandles(pos + 1, panel), panel.labels, 1)
       IN  /\ axes' = axes + 1
           /\ IF created # "ok"
              THEN /\ dpc' = "raised" /\ dexc' = created
                   /\ UNCHANGED <<pos, all_handles, all_labels>>
              ELSE IF drawn # "ok"
              THEN /\ dpc' = "raised" /\ dexc' = drawn
                   /\ UNCHANGED <<pos, all_handles, all_labels>>
              ELSE /\ pos' = pos + 1
                   /\ all_handles' = acc.handles
                   /\ all_labels' = acc.labels
                   /\ UNCHANGED <<dpc, dexc>>
    /\ UNCHANGED <<panels, shared_legend, placed, algVars, policyVars,
                   renderVars, concVars, auxVars>>

\* after the loop: the shared legend, the title, the layout, "return fig"
FinishRender ==
    /\ dpc = "loop"
    /\ pos = Len(panels)
    /\ placed' = IF shared_legend /\ all_handles # <<>>
                 THEN [called |-> TRUE, handles |-> all_handles,
                       labels |-> all_labels]
                 ELSE NotPlaced
    /\ dpc' = "done"
    /\ UNCHANGED <<panels, shared_legend, dexc, pos, axes, all_handles,
                   all_labels, algVars, policyVars,
                   renderVars, concVars, auxVars>>

----------------------------------------------------------------------------
(* The inputs and the calls *)

\* x of a series of length n: plain numbers 0, 1, 2, ..., or dates with a
\* gap of two days in the middle
XSeq(kind, n) ==
    IF kind = "num" THEN [k \in 1..n |-> Num(k - 1)]
    ELSE [k \in 1..n |-> Date(k - 1 + (IF 2 * k > n THEN 2 ELSE 0))]

\* a flat series of length n with one spike of height h at position p
Spike(n, p, h) == [k \in 1..n |-> IF k = p THEN 1 + h ELSE 1]

ShortYs == UNION {[1..n -> Vals] : n \in 0..MaxLen}

LongYs ==
    {Spike(n, p, h) : n \in (MaxLen + 1)..MaxN, p \in 1..3, h \in {0 - 1, 1}}
    \cup UNION {{Spike(n, n, h), Spike(n, (n + 1) \div 2, h)} :
                    n \in (MaxLen + 1)..MaxN, h \in {0 - 1, 1}}

SeriesYs == ShortYs \cup LongYs

\* the policy is not exercised: a default style and fixed settings
PolicyIdle ==
    /\ style = DefaultStyle
    /\ settings = [downsample_threshold |-> 0, max_render_points |-> 0]

Init ==
    /\ y \in SeriesYs
    /\ \E kind \in {"num", "datetime"} : x = XSeq(kind, Len(y))
    /\ threshold \in Thresholds
    /\ op = "none"
    /\ res = NoResult
    /\ PolicyIdle
    /\ DashIdle
    /\ RenderIdle
    /\ AuxIdle

CallLttb ==
    /\ op = "none"
    /\ op' = "lttb"
    /\ res' = lttb_downsample(x, y, threshold)
    /\ UNCHANGED <<x, y, threshold, policyVars, dashVars,
                   renderVars, concVars, auxVars>>

CallSimple ==
    /\ op = "none"
    /\ op' = "simple"
    /\ res' = simple_downsample(x, y, threshold)
    /\ UNCHANGED <<x, y, threshold, policyVars, dashVars,
                   renderVars, concVars, auxVars>>

CallMinMax ==
    /\ op = "none"
    /\ op' = "minmax"
    /\ res' = minmax_downsample(x, y, threshold)
    /\ UNCHANGED <<x, y, threshold, policyVars, dashVars,
                   renderVars, concVars, auxVars>>

Next == CallLttb \/ CallSimple \/ CallMinMax

Spec == Init /\ [][Next]_vars

----------------------------------------------------------------------------
(* The reduction policy on its own: TimeSeriesChart._maybe_downsample *)

PolicyYs ==
    ShortYs \cup
    UNION {{Spike(n, 1, h), Spike(n, (n + 1) \div 2, h), Spike(n, n, h)} :
               n \in (MaxLen + 1)..MaxPolicyN, h \in {0 - 1, 1}}

StyleThresholds == {None} \cup {Some(t) : t \in (0 - 1)..MaxPolicyT}

InitPolicy ==
    /\ y \in PolicyYs
    /\ x = XSeq("datetime", Len(y))
    /\ threshold = 0
    /\ op = "none"
    /\ res = NoResult
    /\ style \in [auto_downsample : BOOLEAN,
                  downsample_threshold : StyleThresholds]
    /\ settings \in SettingsValues
    /\ DashIdle
    /\ RenderIdle
    /\ AuxIdle

CallMaybeDownsample ==
    /\ op = "none"
    /\ op' = "maybe_downsample"
    /\ res' = maybe_downsample(x, y, style, settings)
    /\ UNCHANGED <<x, y, threshold, policyVars, dashVars,
                   renderVars, concVars, auxVars>>

NextPolicy == CallMaybeDownsample

SpecPolicy == InitPolicy /\ [][NextPolicy]_vars

----------------------------------------------------------------------------
(* Rendering time series charts: TimeSeriesChart._render_to_axes_impl *)

RenderYs == {Spike(n, p, 1) : n \in 0..MaxPolicyN, p \in 1..2}

RenderStyles ==
    [auto_downsample : BOOLEAN,
     downsample_threshold : {None, Some(0), Some(3), Some(5)},
     rasterize : BOOLEAN,
     auto_rasterize : BOOLEAN]

\* ChartSettings values read while rendering: the two reduction values and
\* the point count above which a plot is rasterized
RenderSettingsValues ==
    [downsample_threshold : {0, 3},
     max_render_points : {2, 4},
     auto_rasterize_threshold : {0, 3, MaxPolicyN}]

\* the chart under observation, and another chart rendered in between
ThisChart == [x |-> x, y |-> y, style |-> style]
OtherChart ==
    [x |-> XSeq("datetime", 6), y |-> Spike(6, 2, 1),
     style |-> [DefaultStyle EXCEPT !.downsample_threshold = Some(3)]]

InitRender ==
    /\ y \in RenderYs
    /\ x = XSeq("datetime", Len(y))
    /\ threshold = 0
    /\ op = "none"
    /\ res = NoResult
    /\ style \in RenderStyles
    /\ settings \in RenderSettingsValues
    /\ DashIdle
    /\ RenderIdle
    /\ AuxIdle

\* what one call of chart._render_to_axes_impl(ax) is recorded as: the
\* chart's series and style, and the outcome
RenderEntry(chart) ==
    [x |-> chart.x, y |-> chart.y, style |-> chart.style,
     out |-> render_to_axes_impl(chart.x, chart.y, chart.style, settings)]

\* the reduction result within an outcome
ResultOf(out) ==
    [status |-> out.status, x |-> out.x, y |-> out.y, idx |-> out.idx]

\* chart._render_to_axes_impl(ax) on the chart under observation; the
\* chart's data, its style and the settings are only read
RenderThis ==
    /\ Len(log) < MaxCalls
    /\ log' = Append(log, RenderEntry(ThisChart))
    /\ op' = "render"
    /\ res' = ResultOf(log'[Len(log')].out)
    /\ UNCHANGED <<x, y, threshold, policyVars, dashVars, concVars, auxVars>>

\* chart._render_to_axes_impl(ax) on the other chart
RenderOther ==
    /\ Len(log) < MaxCalls
    /\ log' = Append(log, RenderEntry(OtherChart))
    /\ op' = "render"
    /\ res' = ResultOf(log'[Len(log')].out)
    /\ UNCHANGED <<x, y, threshold, policyVars, dashVars, concVars, auxVars>>

NextRender == RenderThis \/ RenderOther

SpecRender == InitRender /\ [][NextRender]_vars

----------------------------------------------------------------------------
(* A time series chart with range bands and a trend line *)

\* series of one length with one spike each
BandSeries(n) == {Spike(n, p, 1) : p \in 1..n}

BandStyles ==
    {[DefaultStyle EXCEPT !.auto_downsample = a, !.downsample_threshold = d,
                          !.range_bands = rb, !.show_trend = tr] :
        a \in BOOLEAN, d \in {None, Some(2), Some(3), Some(4)},
        rb \in BOOLEAN, tr \in BOOLEAN}

\* ChartSettings values read while rendering
BandSettingsValues ==
    [downsample_threshold : {0, 3},
     max_render_points : {3, MaxBandN},
     auto_rasterize_threshold : {MaxBandN}]

\* validated data: dates, values, upper and lower all have one length
InitBands ==
    /\ \E n \in 1..MaxBandN :
           /\ y \in BandSeries(n) \cup {[k \in 1..n |-> 1]}
           /\ x = XSeq("datetime", n)
           /\ bands \in [present : {TRUE}, upper : BandSeries(n),
                          lower : BandSeries(n)] \cup {NoBands}
    /\ threshold = 0
    /\ op = "none"
    /\ res = NoResult
    /\ style \in BandStyles
    /\ settings \in BandSettingsValues
    /\ DashIdle
    /\ RenderIdle
    /\ band_res = NoBandRes
    /\ plot = NoPlot
    /\ rect_map = <<>> /\ layouts = <<>>
    /\ registry = <<>> /\ registered = <<>>

\* chart._render_to_axes_impl(ax) on the chart with bands
RenderBands ==
    /\ plot = NoPlot
    /\ op' = "render_single"
    /\ res' = maybe_downsample(x, y, style, settings)
    /\ band_res' = IF res'.status = "ok" /\ HasBands(bands, style)
                   THEN ReduceBands(x, bands, res', style, settings)
                   ELSE NoBandRes
    /\ plot' = render_single(x, y, bands, style, res',
                             ShouldRasterize(Len(x), style, settings),
                             band_res')
    /\ UNCHANGED <<x, y, threshold, bands, policyVars, dashVars, renderVars,
                   concVars, layoutVars, registryVars>>

NextBands == RenderBands

SpecBands == InitBands /\ [][NextBands]_vars

----------------------------------------------------------------------------
(* DashboardChart._adjust_layout; fractions of the figure in hundredths *)

\* layout.legend_position: the three values of DashboardLayout and one it
\* does not list (the Literal annotation is not enforced)
LegendPositions == {"top", "bottom", "right", "left"}

\* title=None
NoTitle == "<None>"

Titles == {NoTitle, "", "Q1"}

\* "if self.title"
TitleSet(title) == title \notin {NoTitle, ""}

\* the list literals in the body of _adjust_layout: the three values of
\* rect_map, the default of rect_map.get and the list of the branch without
\* a shared legend, each as [left, bottom, right, top]
NewRects ==
    [top |-> <<5, 5, 95, 88>>,
     bottom |-> <<5, 12, 95, 92>>,
     right |-> <<5, 5, 85, 92>>,
     default |-> <<5, 5, 95, 88>>,
     plain |-> <<5, 5, 95, 95>>]

\* variant: the lists are created once and kept between calls
RectsAtCall_kept(saved) == IF saved = <<>> THEN NewRects ELSE saved

\* the lists a call works on: the literals are evaluated at every call, so
\* the lists of the call before are not consulted
RectsAtCall(saved) == NewRects

\* which of the lists the name rect is bound to
RectKey(position, shared) ==
    IF ~shared THEN "plain"
    ELSE IF position \in {"top", "bottom", "right"} THEN position
    ELSE "default"

\* variant: the title sets the top bound
TitleCap_set(rect, title) ==
    IF TitleSet(title) THEN [rect EXCEPT ![4] = 92] ELSE rect

\* "if self.title: rect[3] = min(rect[3], 0.92)", in place
TitleCap(rect, title) ==
    IF TitleSet(title) THEN [rect EXCEPT ![4] = Min2(@, 92)] ELSE rect

InitLayout ==
    /\ x = <<>> /\ y = <<>> /\ threshold = 0 /\ op = "none" /\ res = NoResult
    /\ PolicyIdle
    /\ DashIdle
    /\ RenderIdle
    /\ AuxIdle

\* self._adjust_layout(fig) of some DashboardChart: rect is what is passed
\* to fig.tight_layout
AdjustLayout ==
    /\ Len(layouts) < MaxLayoutCalls
    /\ \E position \in LegendPositions, shared \in BOOLEAN, title \in Titles :
           /\ rect_map' = [RectsAtCall(rect_map) EXCEPT
                               ![RectKey(position, shared)] = TitleCap(@, title)]
           /\ layouts' = Append(layouts,
                                [legend_position |-> position,
                                 shared_legend |-> shared,
                                 title |-> title,
                                 rect |-> rect_map'[RectKey(position, shared)]])
    /\ UNCHANGED <<algVars, policyVars, dashVars, renderVars, concVars,
                   plotVars, registryVars>>

NextLayout == AdjustLayout

SpecLayout == InitLayout /\ [][NextLayout]_vars

----------------------------------------------------------------------------
(* StyleRegistry: register_style and get_style *)

\* a built-in style
Preset(ct, nm) == [chart_type |-> ct, name |-> nm, custom |-> FALSE]

\* StyleRegistry.__init__: a dict of the built-in styles per chart type
InitialStyles ==
    [ct \in DOMAIN RegistryStyles |->
        [nm \in RegistryStyles[ct] |-> Preset(ct, nm)]]

\* styles a caller constructs and registers
CustomStyles ==
    [chart_type : {"bar", "line", "timeseries"},
     name : {"default", "dark", "Dark", "Custom"},
     custom : {TRUE}]

\* d[k] = v on a dict
DictPut(d, k, v) ==
    [kk \in DOMAIN d \cup {k} |-> IF kk = k THEN v ELSE d[kk]]

\* register_style(style): stored under style.name as it is
register_style(reg, s) ==
    [reg EXCEPT ![s.chart_type] = DictPut(@, s.name, s)]

\* get_style(chart_type, name): both are lowered before the lookup
get_style(reg, ct, nm) ==
    IF Lower(ct) \notin DOMAIN reg THEN [status |-> "ValueError"]
    ELSE IF Lower(nm) \notin DOMAIN reg[Lower(ct)]
    THEN [status |-> "ValueError"]
    ELSE [status |-> "ok", style |-> reg[Lower(ct)][Lower(nm)]]

InitRegistry ==
    /\ x = <<>> /\ y = <<>> /\ threshold = 0 /\ op = "none" /\ res = NoResult
    /\ PolicyIdle
    /\ DashIdle
    /\ RenderIdle
    /\ bands = NoBands /\ band_res = NoBandRes /\ plot = NoPlot
    /\ rect_map = <<>> /\ layouts = <<>>
    /\ registry = InitialStyles
    /\ registered = <<>>

\* registry.register_style(s)
RegisterStyle ==
    /\ Len(registered) < MaxRegistered
    /\ \E s \in CustomStyles :
           /\ registry' = register_style(registry, s)
           /\ registered' = Append(registered, s)
    /\ UNCHANGED <<algVars, policyVars, dashVars, renderVars, concVars,
                   plotVars, layoutVars>>

NextRegistry == RegisterStyle

SpecRegistry == InitRegistry /\ [][NextRegistry]_vars

----------------------------------------------------------------------------
(* One dashboard render: DashboardChart._render_sync *)

\* what the artists of one panel are labelled with
PanelLegends ==
    {<<>>, <<"A">>, <<"B">>, <<"C">>, <<"A", "B">>, <<"B", "A">>,
     <<"A", "A">>}

Panel(kind, st, ok, labels) ==
    [chart_type |-> kind, style |-> st, keys_ok |-> TRUE, data_ok |-> ok,
     labels |-> labels]

\* the panels of a request: drawable line panels with every legend, a kind
\* and a style in other case, a bar panel, an unknown kind, an unknown
\* style, a series that cannot be plotted, and a dict without "data"
PanelConfigs ==
    {Panel("line", "default", TRUE, l) : l \in PanelLegends}
    \cup {Panel("Line", "Default", TRUE, <<"A">>),
          Panel("bar", "default", TRUE, <<"A">>),
          Panel("pie", "default", TRUE, <<>>),
          Panel("line", "nosuch", TRUE, <<>>),
          Panel("timeseries", "default", FALSE, <<>>),
          [Panel("line", "default", TRUE, <<>>) EXCEPT !.keys_ok = FALSE]}

InitDash ==
    /\ x = <<>> /\ y = <<>> /\ threshold = 0 /\ op = "none" /\ res = NoResult
    /\ PolicyIdle
    /\ panels \in UNION {[1..n -> PanelConfigs] : n \in 0..MaxPanels}
    /\ shared_legend \in BOOLEAN
    /\ dpc = "api"
    /\ dexc = "none"
    /\ pos = 0
    /\ axes = 0
    /\ all_handles = <<>>
    /\ all_labels = <<>>
    /\ placed = NotPlaced
    /\ RenderIdle
    /\ AuxIdle

NextDash == GenerateDashboard \/ RenderPanel \/ FinishRender

SpecDash == InitDash /\ [][NextDash]_vars

----------------------------------------------------------------------------
(* Two dashboard renders on worker threads: DashboardChart.render *)

\* the renders in flight
Renders == {1, 2}

ConcPanels ==
    {Panel("line", "default", TRUE, l) : l \in {<<"A">>, <<"B">>, <<"A", "B">>}}
    \cup {Panel("pie", "default", TRUE, <<>>)}

ConcPanelLists == UNION {[1..n -> ConcPanels] : n \in 0..MaxConcPanels}

\* a DashboardChart whose render() has been called; _render_sync has not
\* started on its worker thread yet
NewRender(ps) ==
    [panels |-> ps, shared_legend |-> TRUE, dpc |-> "idle", dexc |-> "none",
     pos |-> 0, axes |-> 0, all_handles |-> <<>>, all_labels |-> <<>>,
     placed |-> NotPlaced]

\* variant: the legend lists are one pair shared by all renders
LegendOf_shared(r) ==
    [handles |-> renders[1].all_handles, labels |-> renders[1].all_labels]

\* all_handles / all_labels: locals of the _render_sync call of render r
LegendOf(r) ==
    [handles |-> renders[r].all_handles, labels |-> renders[r].all_labels]

\* ax.get_legend_handles_labels() on an axes of render r's own figure
ThreadHandles(r, p, panel) == [j \in 1..Len(panel.labels) |-> <<r, p, j>>]

InitConc ==
    /\ x = <<>> /\ y = <<>> /\ threshold = 0 /\ op = "none" /\ res = NoResult
    /\ PolicyIdle
    /\ DashIdle
    /\ log = <<>>
    /\ AuxIdle
    /\ renders \in [Renders -> {NewRender(ps) : ps \in ConcPanelLists}]

\* asyncio.to_thread(self._render_sync): the figure and the grid are made
\* and the two legend lists start empty
StartRender(r) ==
    /\ renders[r].dpc = "idle"
    /\ renders' = [renders EXCEPT ![r].dpc = "loop",
                                  ![r].all_handles = <<>>,
                                  ![r].all_labels = <<>>]
    /\ UNCHANGED <<algVars, policyVars, dashVars, renderVars, auxVars>>

\* one iteration of "for panel in self.panels" on the thread of render r
ThreadPanel(r) ==
    /\ renders[r].dpc = "loop"
    /\ renders[r].pos < Len(renders[r].panels)
    /\ LET rd == renders[r]
           panel == rd.panels[rd.pos + 1]
           created == CreatePanelChart(panel)
           drawn == RenderToAxes(panel)
           acc == CollectLegend(LegendOf(r),
                                ThreadHandles(r, rd.pos + 1, panel),
                                panel.labels, 1)
       IN  renders' =
               [renders EXCEPT ![r] =
                   IF created # "ok"
                   THEN [rd EXCEPT !.axes = @ + 1, !.dpc = "raised",
                                   !.dexc = created]
                   ELSE IF drawn # "ok"
                   THEN [rd EXCEPT !.axes = @ + 1, !.dpc = "raised",
                                   !.dexc = drawn]
                   ELSE [rd EXCEPT !.axes = @ + 1, !.pos = @ + 1,
                                   !.all_handles = acc.handles,
                                   !.all_labels = acc.labels]]
    /\ UNCHANGED <<algVars, policyVars, dashVars, renderVars, auxVars>>

\* after the loop on the thread of render r: the shared legend, "return fig"
ThreadFinish(r) ==
    /\ renders[r].dpc = "loop"
    /\ renders[r].pos = Len(renders[r].panels)
    /\ renders' =
           [renders EXCEPT
               ![r].placed =
                   IF renders[r].shared_legend /\ LegendOf(r).handles # <<>>
                   THEN [called |-> TRUE, handles |-> LegendOf(r).handles,
                         labels |-> LegendOf(r).labels]
                   ELSE NotPlaced,
               ![r].dpc = "done"]
    /\ UNCHANGED <<algVars, policyVars, dashVars, renderVars, auxVars>>

NextConc ==
    \E r \in Renders : StartRender(r) \/ ThreadPanel(r) \/ ThreadFinish(r)

SpecConc == InitConc /\ [][NextConc]_vars

----------------------------------------------------------------------------
(* Properties of the three algorithms *)

N == Len(y)
Called == op # "none"
Ok == res.status = "ok"
OutLen == Len(res.x)

\* the returned (x, y) is the input, element for element
OutputIsInput == Ok /\ res.x = x /\ res.y = y

\* the first and last output points are the first and last input points
EndpointsKept ==
    /\ Ok
    /\ OutLen >= 1
    /\ Len(res.y) = OutLen
    /\ res.x[1] = x[1] /\ res.y[1] = y[1]
    /\ res.x[OutLen] = x[N] /\ res.y[OutLen] = y[N]

\* C1: for each of the three algorithms, a series of length n <= t with
\* t >= 1 is returned as it is: same length, same values, same order.
C1_IdentityWhenSmall ==
    (Called /\ threshold >= 1 /\ N <= threshold) => OutputIsInput

\* C1 witness: minmax was called on a series of exactly threshold >= 2
\* points and returned it.
C1_Witness ==
    /\ op = "minmax" /\ threshold >= 2 /\ N = threshold
    /\ OutputIsInput

\* C2: lttb_downsample with 2 <= t < n completes and returns exactly t
\* points in x and in y.
C2_LttbExactSize ==
    (op = "lttb" /\ 2 <= threshold /\ threshold < N)
        => (Ok /\ Len(res.x) = threshold /\ Len(res.y) = threshold)

\* C3 as stated: for all three algorithms with n > t >= 2 the first and
\* the last output point are the first and the last input point.
C3_EndpointsAllThree ==
    (Called /\ N > threshold /\ threshold >= 2) => EndpointsKept

\* C3 amended: the endpoints are kept by simple_downsample for n > t >= 2
\* and by lttb_downsample for n > t >= 3; lttb_downsample with t = 2 raises
\* ZeroDivisionError and returns nothing; minmax_downsample is not covered.
C3_EndpointsStrideLttb ==
    /\ (op = "simple" /\ N > threshold /\ threshold >= 2) => EndpointsKept
    /\ (op = "lttb" /\ N > threshold /\ threshold >= 3) => EndpointsKept
    /\ (op = "lttb" /\ N > threshold /\ threshold = 2)
           => res.status = "ZeroDivisionError"

\* C3 witness: simple_downsample had to append the last index (n - 1 is no
\* multiple of the step) and lttb picked interior points between the ends.
C3_Witness ==
    \/ /\ op = "simple" /\ N > threshold /\ threshold >= 2
       /\ (N - 1) % SimpleStep(N, threshold) # 0
       /\ EndpointsKept
    \/ /\ op = "lttb" /\ N > threshold /\ threshold >= 3
       /\ EndpointsKept

\* C4: minmax_downsample with n > t >= 2 returns exactly 2 * floor(t / 2)
\* points: no bucket is empty or skipped, and a bucket whose minimum and
\* maximum are the same index still contributes two points.
C4_MinMaxSize ==
    (op = "minmax" /\ N > threshold /\ threshold >= 2)
        => /\ Ok
           /\ Len(res.x) = 2 * (threshold \div 2)
           /\ Len(res.y) = 2 * (threshold \div 2)

\* C4 witness: a bucket emitted the same index twice.
C4_Witness ==
    /\ op = "minmax" /\ N > threshold /\ threshold >= 2 /\ Ok
    /\ OutLen = 2 * (threshold \div 2)
    /\ \E i \in 1..(threshold \div 2) : res.idx[2 * i - 1] = res.idx[2 * i]

\* the true minimum / maximum of y over the 0-based index range [lo, hi)
TrueMin(lo, hi) ==
    CHOOSE v \in {At(y, j) : j \in lo..(hi - 1)} :
        \A j \in lo..(hi - 1) : v <= At(y, j)
TrueMax(lo, hi) ==
    CHOOSE v \in {At(y, j) : j \in lo..(hi - 1)} :
        \A j \in lo..(hi - 1) : v >= At(y, j)

\* C5: with k = floor(t / 2) and n > t >= 2, the two points emitted for
\* bucket i come from [floor(i*n/k), floor((i+1)*n/k)), earlier index
\* first, and their y values are the true minimum and the true maximum of
\* y over that range (the ranges partition [0, n)).
C5_MinMaxBuckets ==
    (op = "minmax" /\ N > threshold /\ threshold >= 2)
        => LET k == threshold \div 2
           IN  /\ Ok
               /\ Len(res.idx) = 2 * k
               /\ \A i \in 0..(k - 1) :
                      LET lo == (i * N) \div k
                          hi == ((i + 1) * N) \div k
                          a == res.idx[2 * i + 1]
                          b == res.idx[2 * i + 2]
                      IN  /\ lo <= a /\ a <= b /\ b < hi
                          /\ {res.y[2 * i + 1], res.y[2 * i + 2]}
                                 = {TrueMin(lo, hi), TrueMax(lo, hi)}

\* the number of multiples of step = max(1, floor(n / t)) below n
StrideCount == (N + Max2(1, N \div threshold) - 1) \div Max2(1, N \div threshold)

\* C6 as stated: simple_downsample with n > t >= 1 returns t or t + 1
\* points.
C6_StrideSize ==
    (op = "simple" /\ N > threshold /\ threshold >= 1)
        => (Ok /\ OutLen \in {threshold, threshold + 1})

\* C6 amended: simple_downsample with n > t >= 1 returns c or c + 1 points,
\* where c = ceil(n / step) >= t is the number of multiples of
\* step = max(1, floor(n / t)) below n; this is t or t + 1 when t divides n,
\* and can exceed t + 1 otherwise.
C6_StrideSizeByStep ==
    (op = "simple" /\ N > threshold /\ threshold >= 1)
        => /\ Ok
           /\ Len(res.y) = OutLen
           /\ OutLen \in {StrideCount, StrideCount + 1}
           /\ StrideCount >= threshold
           /\ (N % threshold = 0 => OutLen \in {threshold, threshold + 1})

\* C6 witness: a call where t does not divide n and the last index had to
\* be appended.
C6_Witness ==
    /\ op = "simple" /\ N > threshold /\ threshold >= 2 /\ Ok
    /\ N % threshold # 0
    /\ OutLen = StrideCount + 1

----------------------------------------------------------------------------
(* Properties of the reduction policy (under SpecPolicy) *)

\* the effective threshold as the documentation states it
EffectiveThreshold ==
    IF style.downsample_threshold.some THEN style.downsample_threshold.v
    ELSE settings.downsample_threshold

\* auto_downsample is set, the effective threshold is > 0 and n exceeds it
TriggerCondition ==
    /\ style.auto_downsample
    /\ EffectiveThreshold > 0
    /\ N > EffectiveThreshold

PolicyCalled == op = "maybe_downsample"

\* C9: _maybe_downsample returns the series unchanged unless auto_downsample
\* is true, the effective threshold is > 0 and n > effective threshold; the
\* effective threshold is the style's downsample_threshold whenever that is
\* not None (also when it is 0 or negative), the settings default otherwise.
C9_PolicyTrigger ==
    (PolicyCalled /\ ~TriggerCondition) => OutputIsInput

\* C9 witness: a style override of 0 switches reduction off although the
\* series is longer than the positive settings default; and a series
\* shorter than its threshold comes back unchanged.
C9_Witness ==
    /\ PolicyCalled /\ OutputIsInput
    /\ style.auto_downsample
    /\ style.downsample_threshold = Some(0)
    /\ settings.downsample_threshold > 0
    /\ N > settings.downsample_threshold
    /\ settings.max_render_points >= 3

HardCap == settings.max_render_points
TargetSize == Min2(EffectiveThreshold, HardCap)

----------------------------------------------------------------------------
(* Properties of the dashboard legend (under SpecDash) *)

\* the legend entries of the first p panels, in panel order and then in
\* drawing order: each entry is <<label, <<panel, position>>>>
RECURSIVE Emitted(_)
Emitted(p) ==
    IF p = 0 THEN <<>>
    ELSE Emitted(p - 1) \o
         [j \in 1..Len(panels[p].labels) |-> <<panels[p].labels[j], <<p, j>>>>]

\* the position at which a label first occurs in a sequence of entries
FirstAt(entries, label) ==
    CHOOSE k \in 1..Len(entries) :
        /\ entries[k][1] = label
        /\ \A m \in 1..(k - 1) : entries[m][1] # label

LabelsOf(entries) == {entries[k][1] : k \in 1..Len(entries)}

\* the labels of a sequence of entries with every non-first occurrence removed
FirstOccurrences(entries) ==
    [k \in 1..Cardinality(LabelsOf(entries)) |->
        CHOOSE l \in LabelsOf(entries) :
            Cardinality({m \in LabelsOf(entries) :
                             FirstAt(entries, m) < FirstAt(entries, l)}) = k - 1]

\* C7: after the loop has processed any prefix of the panels, the
\* accumulated legend has no two entries with the same label, as many
\* handles as labels, and each label's handle is the one of the earliest
\* panel (and earliest position in it) that emitted the label.
C7_LegendDedup ==
    dpc \in {"loop", "done", "raised"}
        => /\ Len(all_handles) = Len(all_labels)
           /\ \A k, m \in 1..Len(all_labels) :
                  all_labels[k] = all_labels[m] => k = m
           /\ \A k \in 1..Len(all_labels) :
                  /\ all_labels[k] \in LabelsOf(Emitted(pos))
                  /\ all_handles[k]
                         = Emitted(pos)[FirstAt(Emitted(pos), all_labels[k])][2]

\* C7 witness: three panels emitted A, B, A; the legend is [A, B] and A's
\* handle is the first panel's.
C7_Witness ==
    /\ pos = 3
    /\ [p \in 1..3 |-> panels[p].labels] = <<<<"A">>, <<"B">>, <<"A">>>>
    /\ all_labels = <<"A", "B">>
    /\ all_handles = <<<<1, 1>>, <<2, 1>>>>

\* C8: when the shared legend is enabled, the labels handed to the legend
\* placement are the concatenation of all panels' labels in panel order
\* with every non-first occurrence removed: every label a panel emitted
\* appears exactly once, so panels with one distinct label each give one
\* entry per panel in panel order.
C8_LegendOrder ==
    (dpc = "done" /\ shared_legend /\ Emitted(Len(panels)) # <<>>)
        => /\ placed.called
           /\ placed.labels = FirstOccurrences(Emitted(Len(panels)))
           /\ \A l \in LabelsOf(Emitted(Len(panels))) :
                  Cardinality({k \in 1..Len(placed.labels) :
                                   placed.labels[k] = l}) = 1
           /\ (/\ \A p \in 1..Len(panels) : Len(panels[p].labels) = 1
               /\ \A p, q \in 1..Len(panels) :
                      panels[p].labels = panels[q].labels => p = q)
                  => placed.labels = [p \in 1..Len(panels) |-> panels[p].labels[1]]

\* C8 witness: as many panels as the dashboard may have, one distinct label
\* each, placed in panel order B, A, C.
C8_Witness ==
    /\ dpc = "done" /\ shared_legend /\ placed.called
    /\ Len(panels) = 3
    /\ [p \in 1..3 |-> panels[p].labels] = <<<<"B">>, <<"A">>, <<"C">>>>
    /\ placed.labels = <<"B", "A", "C">>

----------------------------------------------------------------------------
(* Properties of rendering one series (under SpecRender) *)

\* the documented decision: forced, or automatic and the original point
\* count exceeds the trigger
RasterizeDecision(e) ==
    \/ e.style.rasterize
    \/ e.style.auto_rasterize /\ Len(e.y) > settings.auto_rasterize_threshold

\* the call recorded in e reduced its series
Reduced(e) == e.out.status = "ok" /\ Len(e.out.y) < Len(e.y)

\* C11: the rasterized flag passed to the renderer equals force_rasterize OR
\* (auto_rasterize AND n_original > rasterize_trigger), with n_original the
\* point count before reduction; it does not depend on auto_downsample, the
\* threshold or the reduced length.
C11_RasterizeDecision ==
    \A k \in 1..Len(log) :
        log[k].out.status = "ok"
            => (log[k].out.rasterize <=> RasterizeDecision(log[k]))

\* C11 witness: a series was reduced to no more points than the trigger and
\* rasterized all the same, because its original length exceeds the trigger;
\* and a chart with auto_downsample off was rasterized without being reduced.
C11_Witness ==
    /\ \E k \in 1..Len(log) :
           /\ Reduced(log[k]) /\ log[k].out.rasterize
           /\ ~log[k].style.rasterize
           /\ Len(log[k].out.y) <= settings.auto_rasterize_threshold
    /\ \E k \in 1..Len(log) :
           /\ ~Reduced(log[k]) /\ log[k].out.status = "ok"
           /\ ~log[k].style.auto_downsample
           /\ log[k].out.rasterize

----------------------------------------------------------------------------
(* Properties of dashboard errors (under SpecDash) *)

\* some panel of the request has an unknown chart kind or style name
ConfigError == \E p \in 1..Len(panels) : CreatePanelChart(panels[p]) # "ok"

\* some panel of the request has malformed data: a missing field, or series
\* that do not fit together
Malformed ==
    \E p \in 1..Len(panels) : ~panels[p].keys_ok \/ ~panels[p].data_ok

\* C12: when a panel has an unknown chart kind or an unknown style name the
\* render raises and returns no figure, and when that error is raised
\* nothing has been drawn: no earlier panel has been rendered and no
\* sub-rectangle has been allocated for the failing panel.
C12_ConfigErrors ==
    /\ (dpc = "done") => ~ConfigError
    /\ (dpc = "raised" /\ dexc = "ValueError") => (pos = 0 /\ axes = 0)

\* C13: once generate_dashboard has gone past its parsing stage, a request
\* with a malformed panel has been rejected and no panel has been drawn;
\* malformed data is never discovered after earlier panels were drawn.
C13_ShapeErrors ==
    (Malformed /\ dpc # "api") => (dpc = "raised" /\ pos = 0 /\ axes = 0)

----------------------------------------------------------------------------
(* Properties of the three algorithms on degenerate inputs (under Spec) *)

\* C14: for each of the three algorithms and every integer target (positive,
\* zero or negative) a series of length 0 or 1 is returned unchanged without
\* raising; and for every series, a target t <= 0 returns it unchanged
\* without raising.
C14_DegenerateNoOp ==
    (Called /\ (N <= 1 \/ threshold <= 0)) => OutputIsInput

\* C14 witness: lttb_downsample was given the target 0 on a series long
\* enough to be reduced and returned it as it is.
C14_Witness ==
    /\ op = "lttb" /\ threshold = 0 /\ N >= 3
    /\ OutputIsInput

----------------------------------------------------------------------------
(* Determinism of the reduction (under SpecRender) *)

\* two recorded calls had the same series and the same style (the settings
\* are the same for all calls)
SameInput(a, b) == a.x = b.x /\ a.y = b.y /\ a.style = b.style

----------------------------------------------------------------------------
(* Independence of concurrent renders (under SpecConc) *)

\* the labels the panels of render r emit
OwnLabels(r) ==
    UNION {{renders[r].panels[p].labels[j] :
                j \in 1..Len(renders[r].panels[p].labels)} :
           p \in 1..Len(renders[r].panels)}

\* every entry of render r's accumulated legend, and of the legend handed to
\* its placement step, was emitted by one of its own panels
OwnLegend ==
    \A r \in Renders :
        /\ \A k \in 1..Len(renders[r].all_handles) :
               /\ renders[r].all_handles[k][1] = r
               /\ renders[r].all_labels[k] \in OwnLabels(r)
        /\ renders[r].placed.called
               => \A k \in 1..Len(renders[r].placed.handles) :
                      /\ renders[r].placed.handles[k][1] = r
                      /\ renders[r].placed.labels[k] \in OwnLabels(r)

\* a step leaves every panel list and layout as it is, and changes the
\* state of at most one render
NoCrossWrite ==
    \A r \in Renders :
        /\ renders'[r].panels = renders[r].panels
        /\ renders'[r].shared_legend = renders[r].shared_legend
        /\ renders'[r] # renders[r]
               => \A q \in Renders \ {r} : renders'[q] = renders[q]

\* C16: when two dashboard renders run concurrently, under every
\* interleaving of their panel-loop steps the legend handed to each render's
\* placement step holds only entries emitted by that render's own panels,
\* and neither render changes the other's panel list, layout or
\* accumulated legend.
C16_RenderIndependence == []OwnLegend /\ [][NoCrossWrite]_vars

\* C16 witness: render 2 has placed its legend while render 1 is in the
\* middle of its panel loop; each has collected only its own label.
C16_Witness ==
    /\ renders # <<>>
    /\ renders[1].dpc = "loop" /\ renders[1].pos = 1
    /\ Len(renders[1].panels) = 2
    /\ renders[1].all_labels = <<"A">>
    /\ renders[1].all_handles = <<<<1, 1, 1>>>>
    /\ renders[2].placed.called
    /\ renders[2].placed.labels = <<"B">>
    /\ renders[2].placed.handles = <<<<2, 1, 1>>>>

----------------------------------------------------------------------------
(* Index selection of simple_downsample (under Spec) *)

\* step = max(1, floor(n / t)) as the documentation states it
StrideStep == Max2(1, N \div threshold)

\* all multiples of the step below n, in increasing order
StrideMultiples == [k \in 1..((N - 1) \div StrideStep + 1) |-> (k - 1) * StrideStep]

\* C17: for n > t >= 1 simple_downsample selects exactly the indices
\* 0, step, 2*step, ... below n with step = max(1, floor(n / t)), followed
\* by n - 1 if and only if n - 1 is not a multiple of step; so index 0 and
\* index n - 1 are always selected and n - 1 is selected exactly once.
C17_StrideIndices ==
    (op = "simple" /\ N > threshold /\ threshold >= 1)
        => /\ Ok
           /\ res.idx = IF (N - 1) % StrideStep = 0 THEN StrideMultiples
                        ELSE Append(StrideMultiples, N - 1)
           /\ res.idx[1] = 0
           /\ Cardinality({k \in 1..Len(res.idx) : res.idx[k] = N - 1}) = 1
           /\ res.x = Take(x, res.idx) /\ res.y = Take(y, res.idx)

\* C17 witness: the last index is itself a multiple of a step of at least
\* 2, so it was selected by the stride and not appended again.
C17_Witness ==
    /\ op = "simple" /\ N > threshold /\ threshold >= 1 /\ Ok
    /\ StrideStep >= 2
    /\ (N - 1) % StrideStep = 0
    /\ res.idx = StrideMultiples
    /\ res.idx[Len(res.idx)] = N - 1

----------------------------------------------------------------------------
(* Small targets and numeric degeneracies (under Spec) *)

\* C18: for every series of length n and target t in {1, 2} with n > t,
\* lttb_downsample treats the target as 2 and returns exactly two points,
\* the first and the last input point, without raising.
C18_LttbClamp ==
    (op = "lttb" /\ threshold \in {1, 2} /\ N > threshold)
        => /\ Ok
           /\ res.idx = <<0, N - 1>>
           /\ res.x = <<x[1], x[N]>>
           /\ res.y = <<y[1], y[N]>>

\* C19 as stated: simple_downsample with an empty series or with a target
\* t < 2 (including t = 1 with n > 1) returns the series unchanged and
\* raises no error.
C19_StrideDegenerate ==
    (op = "simple" /\ (N = 0 \/ threshold < 2)) => OutputIsInput

\* C19 amended: simple_downsample raises no error on an empty series or a
\* target t < 2; it returns the series unchanged when the series is empty
\* or t <= 0, and for t = 1 with n > 1 it returns exactly the first and the
\* last point (which is the whole series only when n = 2).
C19_StrideDegenerateFirstLast ==
    (op = "simple" /\ (N = 0 \/ threshold < 2))
        => /\ Ok
           /\ (N = 0 \/ threshold <= 0) => OutputIsInput
           /\ (threshold = 1 /\ N > 1)
                  => /\ res.idx = <<0, N - 1>>
                     /\ res.x = <<x[1], x[N]>>
                     /\ res.y = <<y[1], y[N]>>

\* C19 witness: with t = 1 a series of more than two points came back as
\* its first and last point.
C19_Witness ==
    /\ op = "simple" /\ threshold = 1 /\ N >= 3 /\ Ok
    /\ res.idx = <<0, N - 1>>
    /\ OutLen = 2

\* C20: for every series length n >= 0 and every integer target,
\* lttb_downsample and minmax_downsample complete without raising (no
\* division by zero when floor(t / 2) or t - 2 is zero), and every index
\* selected lies in [0, n).
C20_NoRaise ==
    (op \in {"lttb", "minmax"})
        => /\ Ok
           /\ \A k \in 1..Len(res.idx) : res.idx[k] \in 0..(N - 1)

----------------------------------------------------------------------------
(* The anchor of lttb_downsample (under Spec) *)

\* the next bucket as the documentation states it: the index range
\* [floor((i+1)*bs)+1, floor((i+2)*bs)+1) with bs = (n-2)/(t-2), which is
\* the range scanned for candidates at iteration i + 1
NextBucket(i) ==
    Range(((i + 1) * (N - 2)) \div (threshold - 2) + 1,
          ((i + 2) * (N - 2)) \div (threshold - 2) + 1)

\* C21: at iteration i (0 <= i <= t-3) of lttb_downsample the anchor is the
\* mean over exactly the next bucket's index range; for the final bucket
\* it is the last input point; no index outside the next bucket
\* contributes to the mean.
C21_LttbAnchor ==
    (op = "lttb" /\ N > threshold /\ threshold >= 3 /\ Ok)
        => \A i \in 0..(threshold - 3) :
               LttbNextSlice(i, N, threshold)
                   = IF i = threshold - 3 THEN <<N - 1>> ELSE NextBucket(i)

\* C22: when show_trend is set the trend line is fitted on all the original
\* points and is plotted at exactly the x-coordinates of the main series as
\* rendered.  Violated: the trend line is plotted at every original date,
\* whatever the main series was reduced to.
C22_TrendAtRenderedX ==
    (plot.status = "ok" /\ plot.trend.status = "ok")
        => /\ plot.trend.fitted_on = Len(y)
           /\ plot.trend.x = plot.main.x

\* C23: with validated input and range bands switched on, the bands handed
\* to fill_between are as long as the main series as rendered, whether the
\* main series was reduced or not.
C23_BandLength ==
    (op = "render_single" /\ res.status = "ok" /\ HasBands(bands, style))
        => /\ plot.band.status = "ok"
           /\ plot.band.x = plot.main.x
           /\ Len(plot.band.upper) = Len(plot.main.x)
           /\ Len(plot.band.lower) = Len(plot.main.x)

\* a reduced series was drawn with bands of its reduced length
C23_Witness ==
    /\ plot.status = "ok"
    /\ plot.band.status = "ok"
    /\ Len(plot.main.x) < Len(y)
    /\ Len(plot.band.upper) = Len(plot.main.x)
    /\ Len(plot.band.lower) = Len(plot.main.x)

\* the bands of the plot were reduced
BandsReduced ==
    /\ plot.status = "ok"
    /\ plot.band.status = "ok"
    /\ Len(plot.band.upper) < Len(bands.upper)

\* C24: each band is reduced by a run of LTTB on its own values over the
\* original dates, so that the original indices behind a band need not be
\* those behind the main series (the witness is such a plot).
C24_IndependentRuns ==
    BandsReduced
        => /\ plot.band.uidx
                  = lttb_downsample(x, bands.upper,
                                    TargetPoints(style, settings)).idx
           /\ plot.band.lidx
                  = lttb_downsample(x, bands.lower,
                                    TargetPoints(style, settings)).idx
           /\ plot.band.upper = Take(bands.upper, plot.band.uidx)
           /\ plot.band.lower = Take(bands.lower, plot.band.lidx)
           /\ plot.band.x = Take(x, plot.main.idx)

\* at some position the upper band's value comes from another original
\* index than the x-coordinate it is plotted at
C24_Witness ==
    /\ BandsReduced
    /\ \E k \in 1..Len(plot.main.idx) :
           plot.band.uidx[k] # plot.main.idx[k]

\* the top bound of the content rectangle of a logged call
TopOf(e) == e.rect[4]

\* C25: the content rectangle follows from the legend position, the
\* shared_legend flag and the title: a top legend gives the top bound 0.88,
\* a bottom legend the bottom bound 0.12 and the top bound 0.92, a right
\* legend the right bound 0.85 and the top bound 0.92, no shared legend gives
\* 0.05 / 0.05 / 0.95 / 0.95; a title caps the top bound at 0.92; the top
\* legend has the smallest top bound of all.
C25_MarginReservation ==
    \A i \in 1..Len(layouts) :
        LET e == layouts[i]
            base == IF ~e.shared_legend THEN <<5, 5, 95, 95>>
                    ELSE IF e.legend_position = "top" THEN <<5, 5, 95, 88>>
                    ELSE IF e.legend_position = "bottom" THEN <<5, 12, 95, 92>>
                    ELSE IF e.legend_position = "right" THEN <<5, 5, 85, 92>>
                    ELSE e.rect
        IN  /\ ~TitleSet(e.title) => e.rect = base
            /\ TitleSet(e.title) =>
                   e.rect = <<base[1], base[2], base[3], Min2(base[4], 92)>>
            /\ \A j \in 1..Len(layouts) :
                   (e.shared_legend /\ e.legend_position = "top")
                       => TopOf(e) <= TopOf(layouts[j])

\* a titled dashboard with a top legend and one without a shared legend
\* were laid out
C25_Witness ==
    /\ \E i \in 1..Len(layouts) :
           /\ layouts[i].shared_legend /\ layouts[i].legend_position = "top"
           /\ TitleSet(layouts[i].title)
           /\ TopOf(layouts[i]) = 88
    /\ \E i \in 1..Len(layouts) :
           /\ ~layouts[i].shared_legend /\ TitleSet(layouts[i].title)
           /\ TopOf(layouts[i]) = 92

\* two logged calls were made with the same inputs
SameInputs(d, e) ==
    /\ d.legend_position = e.legend_position
    /\ d.shared_legend = e.shared_legend
    /\ d.title = e.title

\* C29: whatever renders came before, the content rectangle of a render
\* depends on its own legend position, shared_legend flag and title only;
\* the title cap of one render does not reach a later one.
C29_NoMarginLeak ==
    \A i, j \in 1..Len(layouts) :
        SameInputs(layouts[i], layouts[j]) => layouts[i].rect = layouts[j].rect

\* a titled render without a shared legend was capped, and a later
\* untitled one got the uncapped rectangle
C29_Witness ==
    \E i, j \in 1..Len(layouts) :
        /\ i < j
        /\ ~layouts[i].shared_legend /\ TitleSet(layouts[i].title)
        /\ TopOf(layouts[i]) = 92
        /\ ~layouts[j].shared_legend /\ ~TitleSet(layouts[j].title)
        /\ TopOf(layouts[j]) = 95
        /\ \E k \in 1..Len(layouts) :
               k < i /\ SameInputs(layouts[k], layouts[j])

\* C30: after register_style(s), get_style(s.chart_type, s.name) returns s,
\* whatever the case of the letters of s.name.  Violated: the style is
\* stored under s.name as it is and looked up under the lowered name.
C30_RegistryRoundTrip ==
    registered # <<>> =>
        LET s == registered[Len(registered)]
        IN  get_style(registry, s.chart_type, s.name)
                = [status |-> "ok", style |-> s]

\* the original index behind each output position
Chosen == res.idx

\* C27: the output of each of the three algorithms is an order-preserving
\* selection of input points: the k-th output pair is the input pair at one
\* index, the indices never decrease along the output, and for
\* simple_downsample and lttb_downsample they increase strictly.
C27_OrderedSelection ==
    (Called /\ Ok) =>
        /\ Len(Chosen) = OutLen /\ Len(res.y) = OutLen
        /\ \A k \in 1..OutLen :
               /\ Chosen[k] \in 0..(N - 1)
               /\ res.x[k] = At(x, Chosen[k])
               /\ res.y[k] = At(y, Chosen[k])
        /\ \A k \in 1..(OutLen - 1) : Chosen[k] <= Chosen[k + 1]
        /\ op \in {"simple", "lttb"} =>
               \A k \in 1..(OutLen - 1) : Chosen[k] < Chosen[k + 1]

\* minmax_downsample reduced a series and took the extremes of a bucket in
\* the order of their indices, the maximum lying before the minimum
C27_Witness ==
    /\ op = "minmax" /\ Ok /\ OutLen < N
    /\ \E k \in 1..(OutLen - 1) :
           /\ Chosen[k] < Chosen[k + 1]
           /\ res.y[k] > res.y[k + 1]
           /\ \A m \in Chosen[k]..Chosen[k + 1] : At(y, m) <= res.y[k]

\* C28: for n > t >= 1 simple_downsample returns at least t and at most
\* 2 * t points.
C28_StrideSizeBound ==
    (op = "simple" /\ N > threshold /\ threshold >= 1) =>
        /\ Ok
        /\ OutLen >= threshold
        /\ OutLen <= 2 * threshold

\* a reduction that returns one point short of twice the target
C28_Witness ==
    /\ op = "simple" /\ Ok
    /\ N > threshold /\ threshold >= 2
    /\ OutLen = 2 * threshold - 1

\* every panel of the request has an accepted chart kind, a known style and
\* valid data
AllRenderable ==
    \A p \in 1..Len(panels) :
        /\ panels[p].keys_ok /\ panels[p].data_ok
        /\ CreatePanelChart(panels[p]) = "ok"

\* C26: a dashboard whose panels all have an accepted chart kind (bar, line,
\* timeseries), a known style and valid data renders without error, and the
\* figure it returns contains every panel.  Violated: a bar panel raises
\* NotImplementedError.
C26_PanelRender ==
    AllRenderable =>
        /\ dpc # "raised"
        /\ dpc = "done" => (pos = Len(panels) /\ axes = Len(panels))

====
